---- MODULE Spec2Model ----
(***************************************************************************)
(* Model of the EPUB -> DOCX translation pipeline of                       *)
(* translate_epub_to_docx.py.                          *)
(*                                                                         *)
(* A Python str is modelled as a sequence of one-element strings.  In a    *)
(* source text every element is one character.  In a service response the  *)
(* delimiter tags and the marker words are single elements (words are      *)
(* atomic: no modelled word is a proper extension of a marker prefix).     *)
(***************************************************************************)
EXTENDS Integers, Sequences, FiniteSets, TLC

VARIABLES
    \* ---- pure-function harness (SpecSplit, SpecExtract) ----
    text,        \* argument of split_text
    max_chars,   \* argument of split_text / OllamaTranslator.max_chars
    chunks,      \* value returned by split_text
    raw,         \* argument of extract_translation_only
    cleaned,     \* value returned by extract_translation_only
    called,      \* has the function under study been applied
    \* ---- OllamaTranslator ----
    retry,       \* OllamaTranslator.retry
    cache,       \* OllamaTranslator._cache: source text -> translation
    pc,          \* control location of the running call
    cur,         \* translate_text: its argument `text`
    todo,        \* translate_text: the texts handed to _translate_once, in order
    ci,          \* translate_text: index in todo of the running _translate_once
    acc,         \* translate_text: the results joined so far
    attempt,     \* _translate_once: iterations of the retry loop started
    result,      \* value returned by the last translate_text
    \* ---- history of the run (read by the properties only) ----
    fails,       \* _translate_once: iterations that ended in the except branch
    reqs,        \* HTTP requests issued since translate_text was entered
    onces,       \* _translate_once invocations since translate_text was entered
    known,       \* had translate_text already returned for cur before this call
    cache0,      \* the cache when translate_text was entered
    firstResult, \* source text -> value of its first successful translate_text
    succOnces,   \* source text -> _translate_once invocations of its successful calls
    lastOnce,    \* how the last _translate_once ended
    calls,       \* translate_text calls made by the caller so far
    onceLog,     \* the _translate_once returns since translate_text was entered
    reqLog,      \* the HTTP requests of the last _translate_once that issued one
    \* ---- translate_epub_to_docx ----
    secIdx,      \* idx of the section being processed
    nchild,      \* body children of the section processed so far
    doc,         \* section_doc: the runs added so far
    outputs,     \* files written to output_dir, in write order
    processed,   \* sections whose process_document_item returned
    \* ---- block functions harness ----
    block,       \* the tag handed to the function under study
    oracle,      \* translator.translate_text during the block, as a function
    emitted      \* what the function under study produced

pureVars == <<text, max_chars, chunks, raw, cleaned, called>>
clientVars == <<retry, cache, pc, cur, todo, ci, acc, attempt, result>>
histVars == <<fails, reqs, onces, known, cache0, firstResult, succOnces,
              lastOnce, calls, onceLog, reqLog>>
runVars == <<secIdx, nchild, doc, outputs, processed>>

blockVars == <<block, oracle, emitted>>

vars == <<pureVars, clientVars, histVars, runVars, blockVars>>

\* ------------------------------------------------------------------ bounds
MaxTextLen == 8
MaxChars == 4
MaxRawLen == 5
MaxRetry == 1
MaxCalls == 3
NumSections == 2
MaxChildren == 2

\* ------------------------------------------------------------- characters
NL == "\n"
Whitespace == {" ", NL}
\* u3002, uff01, uff1f stand for the CJK full stop, exclamation and question mark.
Terminators == {".", "!", "?", "u3002", "uff01", "uff1f"}
TextChars == {"a", ".", " "}

OPEN == "<translation>"
CLOSE == "</translation>"
RawTokens == {OPEN, CLOSE, "Reasoning", "thinking", "ni", " ", NL}

\* sikao, tuili, fenxi stand for the three CJK marker words of the source;
\* ni stands for a CJK content character.
INFERENCE_PREFIXES ==
    {"sikao", "tuili", "fenxi", "reasoning", "analysis", "thought",
     "original", "source", "translation"}

\* All strings over alphabet A of length at most n.
StringsUpTo(A, n) == UNION {[1..k -> A] : k \in 0..n}

\* -------------------------------------------------------- str primitives
IsSpace(c) == c \in Whitespace

RECURSIVE LStrip(_)
LStrip(s) ==
    IF s = <<>> THEN <<>>
    ELSE IF IsSpace(Head(s)) THEN LStrip(Tail(s)) ELSE s

RECURSIVE RStrip(_)
RStrip(s) ==
    IF s = <<>> THEN <<>>
    ELSE IF IsSpace(s[Len(s)]) THEN RStrip(SubSeq(s, 1, Len(s) - 1)) ELSE s

\* str.strip()
Strip(s) == RStrip(LStrip(s))

\* str.lower() on one element
LowerTok(c) ==
    CASE c = "Reasoning" -> "reasoning"
      [] c = "Thinking" -> "thinking"
      [] c = "Thought" -> "thought"
      [] c = "Translation" -> "translation"
      [] c = "<TRANSLATION>" -> OPEN
      [] c = "</TRANSLATION>" -> CLOSE
      [] OTHER -> c

\* sep.join(list)
RECURSIVE Join(_, _)
Join(list, sep) ==
    IF list = <<>> THEN <<>>
    ELSE IF Len(list) = 1 THEN list[1]
    ELSE list[1] \o sep \o Join(Tail(list), sep)

\* ------------------------------------------------------------ split_text
\* First index >= i of s that is not whitespace (Len(s)+1 if none).
RECURSIVE SkipSpace(_, _)
SkipSpace(s, i) ==
    IF i > Len(s) THEN i
    ELSE IF IsSpace(s[i]) THEN SkipSpace(s, i + 1) ELSE i

\* SENTENCE_SPLIT_RE.split(text): cut at every whitespace run that directly
\* follows a terminator; the run is dropped, empty strings are kept.
RECURSIVE SplitFrom(_, _, _, _)
SplitFrom(s, i, piece, parts) ==
    IF i > Len(s) THEN Append(parts, piece)
    ELSE IF IsSpace(s[i]) /\ i > 1 /\ s[i - 1] \in Terminators
         THEN SplitFrom(s, SkipSpace(s, i), <<>>, Append(parts, piece))
         ELSE SplitFrom(s, i + 1, Append(piece, s[i]), parts)

SentenceSplit(s) == SplitFrom(s, 1, <<>>, <<>>)

\* Pack with the joining space left out of the size test.
RECURSIVE PackNoJoinSpace(_, _, _, _, _)
PackNoJoinSpace(parts, i, buf, out, mc) ==
    IF i > Len(parts) THEN (IF buf # <<>> THEN Append(out, buf) ELSE out)
    ELSE LET part == parts[i] IN
         IF part = <<>> THEN PackNoJoinSpace(parts, i + 1, buf, out, mc)
         ELSE IF Len(buf) + Len(part) <= mc
              THEN PackNoJoinSpace(parts, i + 1, Strip(buf \o <<" ">> \o part), out, mc)
              ELSE PackNoJoinSpace(parts, i + 1, part,
                        IF buf # <<>> THEN Append(out, buf) ELSE out, mc)

\* Pack whose size test counts one character too many.
RECURSIVE PackExtraChar(_, _, _, _, _)
PackExtraChar(parts, i, buf, out, mc) ==
    IF i > Len(parts) THEN (IF buf # <<>> THEN Append(out, buf) ELSE out)
    ELSE LET part == parts[i] IN
         IF part = <<>> THEN PackExtraChar(parts, i + 1, buf, out, mc)
         ELSE IF Len(buf) + Len(part) + 2 <= mc
              THEN PackExtraChar(parts, i + 1, Strip(buf \o <<" ">> \o part), out, mc)
              ELSE PackExtraChar(parts, i + 1, part,
                        IF buf # <<>> THEN Append(out, buf) ELSE out, mc)

\* Pack that forgets to flush the buffer when the next part does not fit.
RECURSIVE PackNoFlush(_, _, _, _, _)
PackNoFlush(parts, i, buf, out, mc) ==
    IF i > Len(parts) THEN (IF buf # <<>> THEN Append(out, buf) ELSE out)
    ELSE LET part == parts[i] IN
         IF part = <<>> THEN PackNoFlush(parts, i + 1, buf, out, mc)
         ELSE IF Len(buf) + Len(part) + 1 <= mc
              THEN PackNoFlush(parts, i + 1, Strip(buf \o <<" ">> \o part), out, mc)
              ELSE PackNoFlush(parts, i + 1, part, out, mc)

\* The packing loop of split_text from part i on.
RECURSIVE Pack(_, _, _, _, _)
Pack(parts, i, buf, out, mc) ==
    IF i > Len(parts) THEN (IF buf # <<>> THEN Append(out, buf) ELSE out)
    ELSE LET part == parts[i] IN
         IF part = <<>> THEN Pack(parts, i + 1, buf, out, mc)
         ELSE IF Len(buf) + Len(part) + 1 <= mc
              THEN Pack(parts, i + 1, Strip(buf \o <<" ">> \o part), out, mc)
              ELSE Pack(parts, i + 1, part,
                        IF buf # <<>> THEN Append(out, buf) ELSE out, mc)

split_text(t, mc) == Pack(SentenceSplit(t), 1, <<>>, <<>>, mc)

\* ------------------------------------------------ extract_translation_only
\* Index of the first element of s at or after i satisfying the tag, 0 if none.
RECURSIVE FindTok(_, _, _)
FindTok(s, i, tag) ==
    IF i > Len(s) THEN 0
    ELSE IF LowerTok(s[i]) = tag THEN i ELSE FindTok(s, i + 1, tag)

\* TRANSLATION_TAG_RE.search(raw): the leftmost opening tag that has a closing
\* tag after it, with the nearest such closing tag (non-greedy, DOTALL,
\* IGNORECASE).  <<0, 0>> when there is no match.
TagSearchFrom(s, i) ==
    LET o == FindTok(s, i, OPEN) IN
    IF o = 0 THEN <<0, 0>>
    ELSE LET c == FindTok(s, o + 1, CLOSE) IN
         IF c = 0 THEN <<0, 0>> ELSE <<o, c>>

TagSearch(s) == TagSearchFrom(s, 1)

\* str.splitlines()
RECURSIVE SplitLinesFrom(_, _, _, _)
SplitLinesFrom(s, i, piece, lines) ==
    IF i > Len(s) THEN (IF piece # <<>> THEN Append(lines, piece) ELSE lines)
    ELSE IF s[i] = NL THEN SplitLinesFrom(s, i + 1, <<>>, Append(lines, piece))
    ELSE SplitLinesFrom(s, i + 1, Append(piece, s[i]), lines)

SplitLines(s) == SplitLinesFrom(s, 1, <<>>, <<>>)

\* The marker test without lowercasing the line.
StartsWithMarkerCaseSensitive(stripped) ==
    stripped # <<>> /\ stripped[1] \in INFERENCE_PREFIXES

\* any(lowered.startswith(prefix) for prefix in INFERENCE_PREFIXES)
StartsWithMarker(stripped) ==
    stripped # <<>> /\ LowerTok(stripped[1]) \in INFERENCE_PREFIXES

\* The line filter of extract_translation_only from line i on.
RECURSIVE FilterLines(_, _, _)
FilterLines(lines, i, kept) ==
    IF i > Len(lines) THEN kept
    ELSE LET stripped == Strip(lines[i]) IN
         IF stripped = <<>> THEN FilterLines(lines, i + 1, kept)
         ELSE IF StartsWithMarker(stripped) THEN FilterLines(lines, i + 1, kept)
         ELSE FilterLines(lines, i + 1, Append(kept, stripped))

\* extract_translation_only with the line filter tried before the tag pair.
extract_filter_first(r) ==
    IF r = <<>> THEN <<>>
    ELSE LET filtered == Strip(Join(FilterLines(SplitLines(r), 1, <<>>), <<NL>>))
             m == TagSearch(r)
         IN IF filtered # <<>> THEN filtered
            ELSE IF m[1] = 0 THEN <<>>
            ELSE Strip(SubSeq(r, m[1] + 1, m[2] - 1))

extract_translation_only(r) ==
    IF r = <<>> THEN <<>>
    ELSE LET m == TagSearch(r)
             candidate == IF m[1] = 0 THEN <<>>
                          ELSE Strip(SubSeq(r, m[1] + 1, m[2] - 1))
         IN IF candidate # <<>> THEN candidate
            ELSE Strip(Join(FilterLines(SplitLines(r), 1, <<>>), <<NL>>))

\* ------------------------------------------------------ OllamaTranslator
\* The source texts the callers pass to translate_text.
DocTexts ==
    { <<>>, <<" ">>, <<"a", ".">>, <<" ", "a", ".">>,
      <<"a", ".", " ", "a", ".">> }

\* The raw generations the service may answer with.
ServiceRaws ==
    { <<OPEN, "ni", CLOSE>>, <<"ni", NL, "hao">>, <<"Translation", " ", "ni">>,
      <<>> }

\* What one requests.post may bring: an exception (exc), or a response with a
\* status and a body that is JSON or not, holding a `response` field and a
\* `message.content` field or not.
Resp(e, st, js, hr, r, hm, c) ==
    [exc |-> e, status |-> st, json |-> js, has_response |-> hr,
     response |-> r, has_message |-> hm, content |-> c]

Responses ==
    { Resp(TRUE, 0, FALSE, FALSE, <<>>, FALSE, <<>>),
      Resp(FALSE, 500, TRUE, FALSE, <<>>, FALSE, <<>>),
      Resp(FALSE, 404, TRUE, FALSE, <<>>, FALSE, <<>>),
      Resp(FALSE, 200, FALSE, FALSE, <<>>, FALSE, <<>>),
      Resp(FALSE, 200, TRUE, FALSE, <<>>, FALSE, <<>>),
      Resp(FALSE, 200, TRUE, FALSE, <<>>, TRUE, <<" ", OPEN, "ni", CLOSE>>) }
    \cup { Resp(FALSE, 200, TRUE, TRUE, r, FALSE, <<>>) : r \in ServiceRaws }

NoOnce ==
    [done |-> FALSE, text |-> <<>>, attempts |-> 0, fails |-> 0,
     raised |-> FALSE, cleaned |-> <<>>, value |-> <<>>]

EmptyMap == [k \in {} |-> <<>>]
Put(f, k, v) == [x \in DOMAIN f \cup {k} |-> IF x = k THEN v ELSE f[x]]

\* `not text.strip()` that only catches the empty string.
IsBlankEmptyOnly(t) == t = <<>>

\* `not text.strip()`
IsBlank(t) == Strip(t) = <<>>

\* A lookup that never hits.
CacheLookupMiss(c, t) == <<FALSE, <<>>>>

\* self._cache.get(text): <<found, value>>
CacheLookup(c, t) == IF t \in DOMAIN c THEN <<TRUE, c[t]>> ELSE <<FALSE, <<>>>>

\* A store keyed by the last chunk translated instead of the argument.
CacheStoreByChunk(c, t, list, translated) ==
    Put(c, IF list = <<>> THEN t ELSE list[Len(list)], translated)

\* self._cache[text] = translated
CacheStore(c, t, list, translated) == Put(c, t, translated)

\* A translate_text that splits whatever the length.
ChunkListAlwaysSplit(t, mc) == split_text(t, mc)

\* The texts translate_text hands to _translate_once.
ChunkList(t, mc) == IF Len(t) <= mc THEN <<t>> ELSE split_text(t, mc)

\* A retry loop that runs once too often.
MaxAttemptsOneMore(r) == r + 2

\* range(self.retry + 1)
MaxAttempts(r) == r + 1

\* (data.get("response") or data.get("message", {}).get("content") or "").strip()
RawText(resp) ==
    Strip(IF resp.has_response /\ resp.response # <<>> THEN resp.response
          ELSE IF resp.has_message /\ resp.content # <<>> THEN resp.content
          ELSE <<>>)

\* Returning the cleaned text even when it is empty.
OnceValueNoFallback(cl, t) == cl

\* cleaned or text
OnceValue(cl, t) == IF cl # <<>> THEN cl ELSE t

\* translate_text up to its first _translate_once, or to its return.
Enter(t) ==
    /\ cur' = t
    /\ reqs' = 0
    /\ cache0' = cache
    /\ known' = (t \in DOMAIN firstResult)
    /\ lastOnce' = NoOnce
    /\ onceLog' = <<>>
    /\ reqLog' = <<>>
    /\ UNCHANGED <<retry, max_chars, firstResult>>
    /\ IF IsBlank(t)
       THEN /\ result' = t
            /\ pc' = "returned"
            /\ onces' = 0
            /\ UNCHANGED <<cache, todo, ci, acc, attempt, fails, succOnces>>
       ELSE IF CacheLookup(cache, t)[1]
       THEN /\ result' = CacheLookup(cache, t)[2]
            /\ pc' = "returned"
            /\ onces' = 0
            /\ UNCHANGED <<cache, todo, ci, acc, attempt, fails, succOnces>>
       ELSE /\ todo' = ChunkList(t, max_chars)
            /\ ci' = 1
            /\ acc' = <<>>
            /\ attempt' = 0
            /\ fails' = 0
            /\ IF ChunkList(t, max_chars) = <<>>
               THEN /\ cache' = CacheStore(cache, t, <<>>, <<>>)
                    /\ result' = <<>>
                    /\ pc' = "returned"
                    /\ onces' = 0
               ELSE /\ pc' = "generate"
                    /\ onces' = 1
                    /\ UNCHANGED <<cache, result>>
            /\ UNCHANGED succOnces

\* A fallback on every error status.
NeedsFallbackOnAnyError(resp) == resp.status >= 400

\* if response.status_code == 404
NeedsFallback(resp) == resp.status = 404

\* One requests.post as the history keeps it: the endpoint, the iteration of
\* the retry loop it belongs to and whether /api/generate answered 404 to it.
Request(ep, a, resp) ==
    [ep |-> ep, att |-> a,
     notfound |-> ep = "generate" /\ ~resp.exc /\ resp.status = 404]

\* The except branch of iteration a of _translate_once, then the next
\* iteration of the loop or, the loop over, the RuntimeError that leaves
\* translate_text.
FailAttempt(a) ==
    /\ attempt' = a
    /\ fails' = fails + 1
    /\ IF a < MaxAttempts(retry)
       THEN /\ pc' = "generate"
            /\ UNCHANGED lastOnce
       ELSE /\ pc' = "raised"
            /\ lastOnce' = [done |-> TRUE, text |-> todo[ci], attempts |-> a,
                            fails |-> fails + 1, raised |-> TRUE,
                            cleaned |-> <<>>, value |-> <<>>]
    /\ UNCHANGED <<cache, todo, ci, acc, result, firstResult, succOnces, onces,
                   onceLog>>

\* Iteration a of _translate_once returns `value`; translate_text goes on with
\* the next chunk or stores the joined result and returns it.
OnceReturn(a, cl, value) ==
    /\ lastOnce' = [done |-> TRUE, text |-> todo[ci], attempts |-> a,
                    fails |-> fails, raised |-> FALSE, cleaned |-> cl,
                    value |-> value]
    /\ acc' = acc \o value
    /\ onceLog' = Append(onceLog, [text |-> todo[ci], value |-> value])
    /\ UNCHANGED todo
    /\ IF ci < Len(todo)
       THEN /\ ci' = ci + 1
            /\ attempt' = 0
            /\ fails' = 0
            /\ onces' = onces + 1
            /\ pc' = "generate"
            /\ UNCHANGED <<cache, result, firstResult, succOnces>>
       ELSE /\ cache' = CacheStore(cache, cur, todo, acc \o value)
            /\ result' = acc \o value
            /\ pc' = "returned"
            /\ attempt' = a
            /\ firstResult' = IF cur \in DOMAIN firstResult THEN firstResult
                              ELSE Put(firstResult, cur, acc \o value)
            /\ succOnces' = Put(succOnces, cur,
                                (IF cur \in DOMAIN succOnces
                                 THEN succOnces[cur] ELSE 0) + onces)
            /\ UNCHANGED <<ci, fails, onces>>

\* response.raise_for_status(), response.json(), the cleaning and the return.
Finish(a, resp) ==
    IF resp.status >= 400 \/ ~resp.json
    THEN FailAttempt(a)
    ELSE OnceReturn(a, extract_translation_only(RawText(resp)),
                    OnceValue(extract_translation_only(RawText(resp)), todo[ci]))

\* One iteration of the retry loop from the POST to /api/generate on.
PostGenerate ==
    /\ pc = "generate"
    /\ attempt < MaxAttempts(retry)
    /\ reqs' = reqs + 1
    /\ UNCHANGED <<retry, max_chars, cur, known, cache0, calls>>
    /\ UNCHANGED <<text, chunks, raw, cleaned, called, runVars, blockVars>>
    /\ \E resp \in Responses :
          /\ reqLog' = Append(IF attempt = 0 THEN <<>> ELSE reqLog,
                              Request("generate", attempt + 1, resp))
          /\ IF resp.exc THEN FailAttempt(attempt + 1)
             ELSE IF NeedsFallback(resp)
             THEN /\ pc' = "chat"
                  /\ attempt' = attempt + 1
                  /\ UNCHANGED <<cache, todo, ci, acc, result, fails, onces,
                                 firstResult, succOnces, lastOnce, onceLog>>
             ELSE Finish(attempt + 1, resp)

\* The rest of an iteration whose first POST was answered 404: the POST to
\* /api/chat.
PostChat ==
    /\ pc = "chat"
    /\ reqs' = reqs + 1
    /\ UNCHANGED <<retry, max_chars, cur, known, cache0, calls>>
    /\ UNCHANGED <<text, chunks, raw, cleaned, called, runVars, blockVars>>
    /\ \E resp \in Responses :
          /\ reqLog' = Append(reqLog, Request("chat", attempt, resp))
          /\ IF resp.exc THEN FailAttempt(attempt) ELSE Finish(attempt, resp)

\* A caller invokes translator.translate_text(t).
CallTranslateText ==
    /\ pc \in {"idle", "returned", "raised"}
    /\ calls < MaxCalls
    /\ calls' = calls + 1
    /\ UNCHANGED <<text, chunks, raw, cleaned, called, runVars, blockVars>>
    /\ \E t \in DocTexts : Enter(t)

ClientInit ==
    /\ cache = EmptyMap
    /\ pc = "idle"
    /\ cur = <<>>
    /\ todo = <<>>
    /\ ci = 0
    /\ acc = <<>>
    /\ attempt = 0
    /\ result = <<>>
    /\ fails = 0
    /\ reqs = 0
    /\ onces = 0
    /\ known = FALSE
    /\ cache0 = EmptyMap
    /\ firstResult = EmptyMap
    /\ succOnces = EmptyMap
    /\ lastOnce = NoOnce
    /\ calls = 0
    /\ onceLog = <<>>
    /\ reqLog = <<>>

RunIdle ==
    /\ secIdx = 0
    /\ nchild = 0
    /\ doc = <<>>
    /\ outputs = <<>>
    /\ processed = {}

BlockIdle ==
    /\ block = <<>>
    /\ oracle = EmptyMap
    /\ emitted = <<>>

PureIdle ==
    /\ text = <<>>
    /\ chunks = <<>>
    /\ raw = <<>>
    /\ cleaned = <<>>
    /\ called = FALSE

Init ==
    /\ PureIdle
    /\ RunIdle
    /\ BlockIdle
    /\ ClientInit
    /\ max_chars \in 1..MaxChars
    /\ retry \in 0..MaxRetry

Next == CallTranslateText \/ PostGenerate \/ PostChat

Spec == Init /\ [][Next]_vars

\* ------------------------------------------------ translate_epub_to_docx
\* The texts of the body children of the sections.
SectionTexts == { <<>>, <<" ">>, <<"a", ".">>, <<"a", ".", " ", "a", ".">> }

\* The section loop that already saves the still empty document.
StartSectionSavingFirst ==
    /\ pc = "run"
    /\ secIdx < NumSections
    /\ secIdx' = secIdx + 1
    /\ nchild' = 0
    /\ doc' = <<>>
    /\ outputs' = Append(outputs, <<secIdx + 1, "docx">>)
    /\ pc' = "children"
    /\ UNCHANGED <<processed, pureVars, retry, cache, cur, todo, ci, acc,
                   attempt, result, histVars, blockVars>>

\* The for loop takes the next document item: section_doc = Document().
StartSection ==
    /\ pc = "run"
    /\ secIdx < NumSections
    /\ secIdx' = secIdx + 1
    /\ nchild' = 0
    /\ doc' = <<>>
    /\ pc' = "children"
    /\ UNCHANGED <<outputs, processed, pureVars, retry, cache, cur, todo, ci,
                   acc, attempt, result, histVars, blockVars>>

\* process_document_item takes the next body child, a text t handed to
\* add_translated_text: nothing for the empty string, the text itself as a
\* run when it is blank, translator.translate_text(t) otherwise.
ChildText ==
    /\ pc = "children"
    /\ nchild < MaxChildren
    /\ nchild' = nchild + 1
    /\ UNCHANGED <<text, chunks, raw, cleaned, called, secIdx, outputs,
                   processed, calls, blockVars>>
    /\ \E t \in SectionTexts :
          IF t = <<>>
          THEN UNCHANGED <<doc, max_chars, clientVars, fails, reqs, onces,
                           known, cache0, firstResult, succOnces, lastOnce,
                           onceLog, reqLog>>
          ELSE IF Strip(t) = <<>>
          THEN /\ doc' = Append(doc, t)
               /\ UNCHANGED <<max_chars, clientVars, fails, reqs, onces,
                              known, cache0, firstResult, succOnces, lastOnce,
                           onceLog, reqLog>>
          ELSE /\ Enter(t)
               /\ UNCHANGED doc

\* translated.split("\n")
RECURSIVE SplitOnNL(_, _, _, _)
SplitOnNL(s, i, piece, out) ==
    IF i > Len(s) THEN Append(out, piece)
    ELSE IF s[i] = NL THEN SplitOnNL(s, i + 1, <<>>, Append(out, piece))
    ELSE SplitOnNL(s, i + 1, Append(piece, s[i]), out)

\* The runs add_translated_text adds for a translation: one run, or one run
\* per line with a break run (<<"<br>">>) between two lines.
RECURSIVE WithBreaks(_)
WithBreaks(parts) ==
    IF Len(parts) <= 1 THEN parts
    ELSE <<Head(parts), <<"<br>">>>> \o WithBreaks(Tail(parts))

Runs(translated) == WithBreaks(SplitOnNL(translated, 1, <<>>, <<>>))

\* add_translated_text adds the translation to the paragraph.
AddRun ==
    /\ pc = "returned"
    /\ doc' = doc \o Runs(result)
    /\ pc' = "children"
    /\ UNCHANGED <<secIdx, nchild, outputs, processed, pureVars, retry, cache,
                   cur, todo, ci, acc, attempt, result, histVars, blockVars>>

\* process_document_item returns and section_doc.save(section_path) writes
\* the docx.
SaveDocx ==
    /\ pc = "children"
    /\ processed' = processed \cup {secIdx}
    /\ outputs' = Append(outputs, <<secIdx, "docx">>)
    /\ pc' = "write_txt"
    /\ UNCHANGED <<secIdx, nchild, doc, pureVars, retry, cache, cur, todo, ci,
                   acc, attempt, result, histVars, blockVars>>

\* The plain-text mirror of the section is written.
WriteTxt ==
    /\ pc = "write_txt"
    /\ outputs' = Append(outputs, <<secIdx, "txt">>)
    /\ pc' = IF secIdx < NumSections THEN "run" ELSE "done"
    /\ UNCHANGED <<secIdx, nchild, doc, processed, pureVars, retry, cache,
                   cur, todo, ci, acc, attempt, result, histVars, blockVars>>

\* The RuntimeError of _translate_once leaves translate_epub_to_docx.
Abort ==
    /\ pc = "raised"
    /\ pc' = "aborted"
    /\ UNCHANGED <<runVars, pureVars, retry, cache, cur, todo, ci, acc,
                   attempt, result, histVars, blockVars>>

InitPipeline ==
    /\ PureIdle
    /\ RunIdle
    /\ BlockIdle
    /\ cache = EmptyMap
    /\ pc = "run"
    /\ cur = <<>>
    /\ todo = <<>>
    /\ ci = 0
    /\ acc = <<>>
    /\ attempt = 0
    /\ result = <<>>
    /\ fails = 0
    /\ reqs = 0
    /\ onces = 0
    /\ known = FALSE
    /\ cache0 = EmptyMap
    /\ firstResult = EmptyMap
    /\ succOnces = EmptyMap
    /\ lastOnce = NoOnce
    /\ calls = 0
    /\ onceLog = <<>>
    /\ reqLog = <<>>
    /\ max_chars \in 1..MaxChars
    /\ retry \in 0..MaxRetry

NextPipeline ==
    \/ StartSection
    \/ ChildText
    \/ PostGenerate
    \/ PostChat
    \/ AddRun
    \/ SaveDocx
    \/ WriteTxt
    \/ Abort

SpecPipeline == InitPipeline /\ [][NextPipeline]_vars

\* ------------------------------------------------- pure-function harness
InitSplit ==
    /\ text \in StringsUpTo(TextChars, MaxTextLen)
    /\ max_chars \in 1..MaxChars
    /\ chunks = <<>>
    /\ raw = <<>>
    /\ cleaned = <<>>
    /\ called = FALSE
    /\ retry = 0
    /\ ClientInit
    /\ RunIdle
    /\ BlockIdle

CallSplitText ==
    /\ ~called
    /\ chunks' = split_text(text, max_chars)
    /\ called' = TRUE
    /\ UNCHANGED <<text, max_chars, raw, cleaned, clientVars, histVars,
                   runVars, blockVars>>

SpecSplit == InitSplit /\ [][CallSplitText]_vars

InitExtract ==
    /\ raw \in StringsUpTo(RawTokens, MaxRawLen)
    /\ text = <<>>
    /\ max_chars = 1
    /\ chunks = <<>>
    /\ cleaned = <<>>
    /\ called = FALSE
    /\ retry = 0
    /\ ClientInit
    /\ RunIdle
    /\ BlockIdle

CallExtract ==
    /\ ~called
    /\ cleaned' = extract_translation_only(raw)
    /\ called' = TRUE
    /\ UNCHANGED <<text, max_chars, chunks, raw, clientVars, histVars,
                   runVars, blockVars>>

SpecExtract == InitExtract /\ [][CallExtract]_vars

\* =================================================================== claims

\* A text that is empty or holds whitespace only.
Blank(t) == \A i \in 1..Len(t) : t[i] \in {" ", NL}

\* ---- helpers of the claims about split_text ----
NonEmptyParts(t) == SelectSeq(SentenceSplit(t), LAMBDA p : p # <<>>)

\* The sentence candidates of t, each trimmed, blank ones left out.
RECURSIVE TrimAll(_)
TrimAll(list) ==
    IF list = <<>> THEN <<>>
    ELSE IF Strip(Head(list)) = <<>> THEN TrimAll(Tail(list))
    ELSE <<Strip(Head(list))>> \o TrimAll(Tail(list))

Candidates(t) == TrimAll(SentenceSplit(t))

\* The candidates of every chunk, in chunk order.
RECURSIVE CandidatesOfAll(_)
CandidatesOfAll(list) ==
    IF list = <<>> THEN <<>>
    ELSE Candidates(Head(list)) \o CandidatesOfAll(Tail(list))

IsPart(t, c) == \E k \in 1..Len(SentenceSplit(t)) : SentenceSplit(t)[k] = c

\* C9: every chunk returned by split_text has length <= max_chars, except a
\* chunk that is exactly one sentence candidate which is itself longer than
\* max_chars (so an over-long sentence is neither cut nor packed with another).
C9_ChunkBound ==
    called =>
        \A k \in 1..Len(chunks) :
            \/ Len(chunks[k]) <= max_chars
            \/ IsPart(text, chunks[k])

\* C9 witness: split_text returned several chunks, one an over-long single
\* sentence and one a pack of two sentences within the budget.
C9_Witness ==
    /\ called
    /\ \E k \in 1..Len(chunks) :
           Len(chunks[k]) > max_chars /\ IsPart(text, chunks[k])
    /\ \E k \in 1..Len(chunks) :
           Len(chunks[k]) <= max_chars /\ Len(Candidates(chunks[k])) = 2

\* C10 (as stated), for the texts translate_text passes (not blank, longer
\* than max_chars): every chunk is non-empty and joining the chunks with a
\* single space gives exactly the non-empty sentence candidates of the input
\* joined by single spaces.
C10_Original ==
    (called /\ ~Blank(text) /\ Len(text) > max_chars) =>
        /\ \A k \in 1..Len(chunks) : chunks[k] # <<>>
        /\ Join(chunks, <<" ">>) = Join(NonEmptyParts(text), <<" ">>)

\* C10 (amended): every chunk is non-empty; up to the leading and trailing
\* whitespace that split_text trims, the chunks joined by single spaces are
\* the sentence candidates joined by single spaces; and the trimmed non-blank
\* candidates found in the chunks, chunk after chunk, are exactly the trimmed
\* non-blank candidates of the input in their order (none lost, duplicated or
\* moved).
C10_NoLossUpToTrim ==
    called =>
        /\ \A k \in 1..Len(chunks) : chunks[k] # <<>>
        /\ Strip(Join(chunks, <<" ">>)) = Strip(Join(NonEmptyParts(text), <<" ">>))
        /\ CandidatesOfAll(chunks) = Candidates(text)

\* C10 witness: split_text returned at least two chunks for a text of at
\* least three sentence candidates whose first candidate has leading whitespace.
C10_Witness ==
    /\ called
    /\ Len(chunks) >= 2
    /\ Len(Candidates(text)) >= 3
    /\ text # <<>> /\ IsSpace(text[1])

\* ---- helpers of the claims about extract_translation_only ----
\* Content of the first tag pair of s at or after i whose trimmed content is
\* non-empty (pairs taken left to right without overlap); <<>> if none.
RECURSIVE FirstNonBlankPair(_, _)
FirstNonBlankPair(s, i) ==
    LET m == TagSearchFrom(s, i) IN
    IF m[1] = 0 THEN <<>>
    ELSE IF Strip(SubSeq(s, m[1] + 1, m[2] - 1)) # <<>>
         THEN Strip(SubSeq(s, m[1] + 1, m[2] - 1))
         ELSE FirstNonBlankPair(s, m[2] + 1)

IsOpen(c) == c \in {OPEN, "<TRANSLATION>"}
IsClose(c) == c \in {CLOSE, "</TRANSLATION>"}

\* Trimmed content of the first tag pair of s: from the leftmost opening tag
\* to the nearest closing tag after it; <<>> if there is no pair.
FirstPairContent(s) ==
    LET opens == {i \in 1..Len(s) : IsOpen(s[i])} IN
    IF opens = {} THEN <<>>
    ELSE LET o == CHOOSE i \in opens : \A j \in opens : i <= j
             closes == {i \in (o + 1)..Len(s) : IsClose(s[i])}
         IN IF closes = {} THEN <<>>
            ELSE LET c == CHOOSE i \in closes : \A j \in closes : i <= j
                 IN Strip(SubSeq(s, o + 1, c - 1))

\* The lines of s, each trimmed.
TrimmedLines(s) == [k \in 1..Len(SplitLines(s)) |-> Strip(SplitLines(s)[k])]

\* The trimmed lines of s that are not blank and do not start, lowercased,
\* with a marker of M; joined by newlines.
LinesWithout(s, M) ==
    Join(SelectSeq(TrimmedLines(s),
                   LAMBDA l : l # <<>> /\ LowerTok(l[1]) \notin M),
         <<NL>>)

\* The markers of the source list, and the list as the specification words it.
CodeMarkers ==
    {"sikao", "tuili", "fenxi", "reasoning", "analysis", "thought",
     "original", "source", "translation"}
SpecMarkers == CodeMarkers \cup {"thinking"}

\* C7 (as stated): whenever the response holds a tag pair with non-blank
\* content, the result is the trimmed content of the first such pair.
C7_Original ==
    (called /\ FirstNonBlankPair(raw, 1) # <<>>) =>
        cleaned = FirstNonBlankPair(raw, 1)

\* C7 (amended): whenever the FIRST tag pair of the response has non-blank
\* content, the result is exactly that trimmed content, whatever surrounds
\* it; otherwise (no pair, or the first pair blank) the result is that of the
\* line filter.
C7_FirstPairAuthoritative ==
    called =>
        IF FirstPairContent(raw) # <<>>
        THEN cleaned = FirstPairContent(raw)
        ELSE cleaned = LinesWithout(raw, CodeMarkers)

\* C7 witness: a response with a marker line before a non-blank tag pair was
\* cleaned to the pair's content.
C7_Witness ==
    /\ called
    /\ Len(raw) >= 4
    /\ LowerTok(raw[1]) \in CodeMarkers
    /\ FirstPairContent(raw) # <<>>
    /\ cleaned = FirstPairContent(raw)

\* C8 (as stated): with no usable tag pair, the result is the non-blank lines
\* that do not start with a marker, "thinking" being one of the markers.
C8_Original ==
    (called /\ FirstPairContent(raw) = <<>>) =>
        cleaned = LinesWithout(raw, SpecMarkers)

\* C8 (amended): with no usable first tag pair, the result is the trimmed
\* non-blank lines that do not start, lowercased, with one of the nine
\* markers of the source list ("thought" is one, "thinking" is not), in
\* their original order, joined by newlines.
C8_LineFilter ==
    (called /\ FirstPairContent(raw) = <<>>) =>
        cleaned = LinesWithout(raw, CodeMarkers)

\* C8 witness: a response without tag pair, with a capitalised marker line,
\* a blank line and two kept lines, was filtered.
C8_Witness ==
    /\ called
    /\ FirstPairContent(raw) = <<>>
    /\ \E k \in 1..Len(TrimmedLines(raw)) :
           TrimmedLines(raw)[k] # <<>> /\ TrimmedLines(raw)[k][1] = "Reasoning"
    /\ \E k \in 1..Len(SplitLines(raw)) : Strip(SplitLines(raw)[k]) = <<>>
    /\ cleaned # <<>>

\* ---- claims about OllamaTranslator (specification Spec) ----
\* C1 (as stated): once translate_text(T) has returned for a non-blank T, a
\* later call returns the same value without any request, a value obtained
\* without request is the one first returned for T itself, and the successful
\* calls for T made exactly one _translate_once invocation in total.
C1_Original ==
    (pc = "returned" /\ ~Blank(cur)) =>
        /\ known => (result = firstResult[cur] /\ reqs = 0)
        /\ reqs = 0 => (known /\ result = firstResult[cur])
        /\ known => succOnces[cur] = 1

\* C1 (amended): as stated, except that the successful calls for T made in
\* total exactly one _translate_once invocation per chunk of T (one when
\* len(T) <= max_chars), all of them in the first successful call.
C1_CacheHit ==
    (pc = "returned" /\ ~Blank(cur)) =>
        /\ known => (result = firstResult[cur] /\ reqs = 0 /\ onces = 0)
        /\ reqs = 0 => (known /\ result = firstResult[cur])
        /\ succOnces[cur] = Len(ChunkList(cur, max_chars))

\* C1 witness: a repeated call returned from the cache while the cache also
\* held another source string with another value.
C1_Witness ==
    /\ pc = "returned"
    /\ known
    /\ ~Blank(cur)
    /\ reqs = 0
    /\ \E k \in DOMAIN cache : k # cur /\ cache[k] # result

\* C2: a _translate_once call starts at most retry+1 iterations; when it
\* returns, the iteration that returned is its only successful one and the
\* first (attempts = failed attempts + 1); it raises exactly when retry+1
\* iterations have failed, and then translate_text ends in the error, not in
\* a returned text.
C2_RetryBudget ==
    /\ attempt <= retry + 1
    /\ fails <= attempt
    /\ lastOnce.done =>
          /\ lastOnce.attempts <= retry + 1
          /\ lastOnce.raised <=> (lastOnce.fails = retry + 1)
          /\ ~lastOnce.raised => lastOnce.attempts = lastOnce.fails + 1
    /\ (pc = "raised") <=> (lastOnce.done /\ lastOnce.raised)
    /\ (pc \in {"generate", "chat"}) => fails < retry + 1

\* C2 witness: a _translate_once call returned on its last allowed iteration
\* after a failed one.
C2_Witness ==
    /\ lastOnce.done
    /\ ~lastOnce.raised
    /\ lastOnce.fails >= 1
    /\ lastOnce.attempts = retry + 1

\* C3: while translate_text runs and after it ended in the error the cache is
\* the cache it was entered with; after a return the cache is that cache, or
\* that cache with the one entry argument -> returned value; the keys of the
\* cache are arguments of successful calls, never a mere chunk.
C3_CacheOnlyOnSuccess ==
    /\ (pc \in {"generate", "chat", "raised"}) => cache = cache0
    /\ (pc = "returned") =>
          \/ cache = cache0
          \/ (~Blank(cur) /\ cache = Put(cache0, cur, result))
    /\ DOMAIN cache \subseteq DOMAIN firstResult
    /\ \A k \in DOMAIN cache : cache[k] = firstResult[k]

\* C3 witness: translate_text of a long text ended in the error on its second
\* chunk, the cache holding an entry.
C3_Witness ==
    /\ pc = "raised"
    /\ ci = 2
    /\ cache # EmptyMap
    /\ cache = cache0

\* C5: translate_text of an empty or whitespace-only text returns the text
\* itself, issues no request, invokes no _translate_once and leaves the cache
\* unchanged.
C5_BlankUnchanged ==
    (pc = "returned" /\ Blank(cur)) =>
        /\ result = cur
        /\ reqs = 0
        /\ onces = 0
        /\ cache = cache0

\* C5 witness: translate_text(" ") returned while the cache held an entry.
C5_Witness ==
    /\ pc = "returned"
    /\ cur = <<" ">>
    /\ result = <<" ">>
    /\ cache # EmptyMap

\* C6: a _translate_once call that returns never returns the empty string:
\* when the response cleans to the empty string it returns its input text;
\* and translate_text of a non-blank text returns a non-empty value.
C6_NeverEmpty ==
    /\ (lastOnce.done /\ ~lastOnce.raised) =>
          /\ lastOnce.value # <<>>
          /\ lastOnce.cleaned = <<>> => lastOnce.value = lastOnce.text
          /\ lastOnce.cleaned # <<>> => lastOnce.value = lastOnce.cleaned
    /\ (pc = "returned" /\ ~Blank(cur)) => result # <<>>

\* C6 witness: a response that cleaned to the empty string made
\* _translate_once return its input, which translate_text returned.
C6_Witness ==
    /\ pc = "returned"
    /\ lastOnce.done
    /\ ~lastOnce.raised
    /\ lastOnce.cleaned = <<>>
    /\ result = cur
    /\ ~Blank(cur)

\* ---- claim about translate_epub_to_docx (specification SpecPipeline) ----
\* C4: the files are written in the order docx 1, txt 1, docx 2, txt 2, ...;
\* a section's files are written only once its processing has returned;
\* sections are processed in order; and once a translation has failed in
\* section k, no file of section k or of a later section exists.
C4_SectionOrder ==
    /\ \A k \in 1..Len(outputs) :
          /\ outputs[k] = <<(k + 1) \div 2, IF k % 2 = 1 THEN "docx" ELSE "txt">>
          /\ outputs[k][1] \in processed
    /\ processed \in {1..secIdx, 1..(secIdx - 1)}
    /\ (pc \in {"children", "generate", "chat", "returned", "raised", "aborted"})
          => \A k \in 1..Len(outputs) : outputs[k][1] < secIdx
    /\ (pc \in {"raised", "aborted"}) => secIdx \notin processed

\* C4 witness: the run was aborted by an error in section 2 with exactly the
\* two files of section 1 written.
C4_Witness ==
    /\ pc = "aborted"
    /\ secIdx = 2
    /\ outputs = << <<1, "docx">>, <<1, "txt">> >>

\* ---- C11: helpers ----
\* May the sentences i..j of list form one group: a single sentence (fitting
\* or over-long), or several that fit in mc when joined by single spaces.
ValidGroup(list, i, j, mc) ==
    \/ i = j
    \/ Len(Join(SubSeq(list, i, j), <<" ">>)) <= mc

\* The least number of consecutive valid groups that cover list from i on.
RECURSIVE MinGroupsFrom(_, _, _)
MinGroupsFrom(list, i, mc) ==
    IF i > Len(list) THEN 0
    ELSE LET sizes == {1 + MinGroupsFrom(list, j + 1, mc) :
                          j \in {k \in i..Len(list) : ValidGroup(list, i, k, mc)}}
         IN CHOOSE n \in sizes : \A m \in sizes : n <= m

MinGroups(list, mc) == MinGroupsFrom(list, 1, mc)

\* C11: no partition of the input's sentence candidates into consecutive
\* groups, each fitting in max_chars when joined by single spaces or being
\* one single over-long sentence, has fewer groups than split_text returns
\* chunks.
C11_MinimalChunks ==
    called => Len(chunks) <= MinGroups(NonEmptyParts(text), max_chars)

\* C11 witness: split_text packed at least three sentence candidates into at
\* least two chunks, as few as any partition has.
C11_Witness ==
    /\ called
    /\ Len(chunks) >= 2
    /\ Len(NonEmptyParts(text)) > Len(chunks)
    /\ Len(chunks) = MinGroups(NonEmptyParts(text), max_chars)

\* ---- claims about the chunk loop of translate_text (specification Spec) ----
RECURSIVE ConcatValues(_)
ConcatValues(log) ==
    IF log = <<>> THEN <<>> ELSE Head(log).value \o ConcatValues(Tail(log))

ExpectedChunks ==
    IF Len(cur) <= max_chars THEN <<cur>> ELSE split_text(cur, max_chars)

\* C12: a translate_text call that is neither blank nor answered from the cache
\* makes its _translate_once calls on the whole text when len(text) <=
\* max_chars and otherwise on the chunks of split_text(text, max_chars), in
\* chunk order, one per chunk, each begun only when all earlier ones have
\* returned (a raise ends the call with no later chunk requested), and it
\* returns the returned values concatenated in that order with no separator.
C12_OneCallPerChunk ==
    (pc \in {"generate", "chat", "raised", "returned"}
        /\ ~Blank(cur) /\ cur \notin DOMAIN cache0) =>
        /\ Len(onceLog) <= Len(ExpectedChunks)
        /\ \A i \in 1..Len(onceLog) : onceLog[i].text = ExpectedChunks[i]
        /\ pc \in {"generate", "chat"} =>
              /\ onces = Len(onceLog) + 1
              /\ onces <= Len(ExpectedChunks)
        /\ pc = "raised" =>
              /\ onces = Len(onceLog) + 1
              /\ lastOnce.raised
              /\ lastOnce.text = ExpectedChunks[onces]
        /\ pc = "returned" =>
              /\ onces = Len(ExpectedChunks)
              /\ Len(onceLog) = Len(ExpectedChunks)
              /\ result = ConcatValues(onceLog)

\* C12 witness: a text longer than max_chars returned after two chunks whose
\* translations differ, the result being the first followed by the second.
C12_Witness ==
    /\ pc = "returned"
    /\ Len(cur) > max_chars
    /\ cur \notin DOMAIN cache0
    /\ Len(onceLog) = 2
    /\ onceLog[1].value # onceLog[2].value
    /\ result = onceLog[1].value \o onceLog[2].value

\* ---- claims about the endpoints of _translate_once (specification Spec) ----
\* C16: in the requests of one _translate_once call, every attempt begins with
\* /api/generate (the first request is the generate of attempt 1 and each
\* later generate opens the next attempt), /api/chat is requested only directly
\* after the /api/generate of the same attempt answered 404, hence at most once
\* per attempt, whatever follows a chat request is the generate of the next
\* attempt, no attempt lies beyond retry + 1, and the call issues at most
\* 2 * (retry + 1) requests.
C16_FallbackOnlyOn404 ==
    /\ Len(reqLog) <= 2 * (retry + 1)
    /\ pc = "chat" => (reqLog # <<>> /\ reqLog[Len(reqLog)].notfound)
    /\ \A i \in 1..Len(reqLog) :
          /\ reqLog[i].att \in 1..(retry + 1)
          /\ i = 1 => (reqLog[i].ep = "generate" /\ reqLog[i].att = 1)
          /\ (i > 1 /\ reqLog[i].ep = "generate") =>
                reqLog[i].att = reqLog[i - 1].att + 1
          /\ reqLog[i].ep = "chat" =>
                /\ i > 1
                /\ reqLog[i - 1].ep = "generate"
                /\ reqLog[i - 1].notfound
                /\ reqLog[i - 1].att = reqLog[i].att

\* C16 witness: with one retry, a call that used its whole budget: generate
\* answered 404 and chat failed, then generate answered 404 again and chat
\* gave the translation.
C16_Witness ==
    /\ retry = 1
    /\ pc = "returned"
    /\ Len(reqLog) = 4
    /\ reqLog[2].ep = "chat"
    /\ reqLog[3].ep = "generate"
    /\ reqLog[4].ep = "chat"
    /\ lastOnce.done /\ ~lastOnce.raised /\ lastOnce.fails = 1

\* ------------------------------------------------ extract_inline_segments
MaxTopKids == 2
MaxInnerKids == 2

\* Nodes of a BeautifulSoup tree.
Str(v) == [kind |-> "str", value |-> v]
Img(src) == [kind |-> "img", src |-> src]
Br == [kind |-> "br"]
TagOf(kids) == [kind |-> "tag", children |-> kids]

\* src attributes: "../images/a.png", "images/a.png", "data:image/png;base64,"
\* and the empty string, as path tokens.
SrcUp == <<"..", "/", "images", "/", "a.png">>
SrcDown == <<"images", "/", "a.png">>
SrcData == <<"data:", "image", "/", "png;base64,">>
SrcEmpty == <<>>

InlineLeaves == {Str(<<"a">>), Str(<<"b">>), Img(SrcUp), Br}

SeqsUpTo(S, n) == UNION {[1..k -> S] : k \in 0..n}

\* The subtrees extract_inline_segments is called on: an element whose
\* children are leaves or elements holding leaves, or an img or br itself.
InlineTrees ==
    {TagOf(kids) :
        kids \in SeqsUpTo(InlineLeaves \cup
                          {TagOf(in) : in \in SeqsUpTo(InlineLeaves, MaxInnerKids)},
                          MaxTopKids)}
    \cup {Img(SrcUp), Br}

\* A merge pass that leaves the segments as walk produced them.
merge_nothing(segments) == segments

\* merge_text_segments
RECURSIVE MergeInto(_, _)
MergeInto(merged, segments) ==
    IF segments = <<>> THEN merged
    ELSE LET seg == Head(segments)
         IN IF /\ seg.type = "text"
               /\ merged # <<>>
               /\ merged[Len(merged)].type = "text"
            THEN MergeInto([merged EXCEPT ![Len(merged)].value = @ \o seg.value],
                           Tail(segments))
            ELSE MergeInto(Append(merged, seg), Tail(segments))

merge_text_segments(segments) == MergeInto(<<>>, segments)

\* walk, returning what it appends to segments
RECURSIVE walk(_)
RECURSIVE WalkAll(_)
walk(child) ==
    IF child.kind = "str" THEN <<[type |-> "text", value |-> child.value]>>
    ELSE IF child.kind = "img" THEN <<[type |-> "img", src |-> child.src]>>
    ELSE IF child.kind = "br" THEN <<[type |-> "text", value |-> <<NL>>]>>
    ELSE WalkAll(child.children)

\* for grand in child.children: walk(grand)
WalkAll(kids) ==
    IF kids = <<>> THEN <<>> ELSE walk(Head(kids)) \o WalkAll(Tail(kids))

extract_inline_segments(node) == merge_text_segments(walk(node))

InitSegments ==
    /\ block \in InlineTrees
    /\ oracle = EmptyMap
    /\ emitted = <<>>
    /\ PureIdle
    /\ ClientInit
    /\ RunIdle
    /\ max_chars = 1
    /\ retry = 0

CallExtractSegments ==
    /\ ~called
    /\ emitted' = extract_inline_segments(block)
    /\ called' = TRUE
    /\ UNCHANGED <<text, max_chars, chunks, raw, cleaned, clientVars, histVars,
                   runVars, block, oracle>>

SpecSegments == InitSegments /\ [][CallExtractSegments]_vars

\* ---- claims about extract_inline_segments (specification SpecSegments) ----
\* The leaves of a subtree in document order: strings, images, line breaks.
RECURSIVE LeavesOf(_)
LeavesOf(node) ==
    IF node.kind # "tag" THEN <<node>>
    ELSE IF node.children = <<>> THEN <<>>
    ELSE LeavesOf(Head(node.children))
            \o LeavesOf(TagOf(Tail(node.children)))

\* A sequence of leaves or of segments as one stream: the characters of the
\* texts (a line break counting as the text "\n") with the images between.
RECURSIVE StreamOf(_)
StreamOf(items) ==
    IF items = <<>> THEN <<>>
    ELSE LET it == Head(items)
             here == IF "src" \in DOMAIN it THEN <<[image |-> it.src]>>
                     ELSE IF "value" \in DOMAIN it THEN it.value
                     ELSE <<NL>>
         IN here \o StreamOf(Tail(items))

\* C13: extract_inline_segments returns the string, image and line-break
\* leaves of the subtree in document order (a line break as the text "\n"),
\* every maximal run of consecutive texts merged by concatenation in order:
\* no two adjacent result segments are both text, no text segment is empty,
\* the images are those of the subtree, in order and each with its own src,
\* and the result read as one stream of characters and images is the leaves
\* read the same way, so text is never carried across an image; a subtree
\* without leaves gives the empty list.
C13_MergedSegments ==
    called =>
        /\ \A i \in 1..Len(emitted) :
              /\ emitted[i].type \in {"text", "img"}
              /\ emitted[i].type = "text" => emitted[i].value # <<>>
              /\ (i > 1 /\ emitted[i].type = "text") =>
                    emitted[i - 1].type = "img"
        /\ StreamOf(emitted) = StreamOf(LeavesOf(block))
        /\ LeavesOf(block) = <<>> => emitted = <<>>

\* C13 witness: text, text, image, text under wrapper markup came out as
\* exactly three segments, the merged text, the image and the text after it.
C13_Witness ==
    /\ called
    /\ Len(LeavesOf(block)) = 4
    /\ block.kind = "tag" /\ Len(block.children) = 2
    /\ Len(emitted) = 3
    /\ emitted[1] = [type |-> "text", value |-> <<"a", "b">>]
    /\ emitted[2].type = "img"
    /\ emitted[3] = [type |-> "text", value |-> <<"b">>]

\* ---------------------------------------------- process_block, process_table
MaxBlockKids == 3
MaxRows == 2
MaxCells == 2

TAB == "\t"
PIC == "<pic>"

\* A tag with its name.
Elem(name, kids) == [kind |-> "tag", name |-> name, children |-> kids]

\* item.get_name() of the section: "text/ch1.xhtml" or "ch1.xhtml".
DocPaths == {<<"text", "/", "ch1.xhtml">>, <<"ch1.xhtml">>}

\* build_image_map for a book whose only image is images/a.png.
ImageMap == [k \in {<<"images", "/", "a.png">>} |-> "tmp/images__a.png"]

\* translator.translate_text as process_block sees it: a function of the
\* text (the cache makes repeated texts agree) that returns a translation,
\* possibly of several lines, or raises the RuntimeError of _translate_once.
NoPoison == "-"
Oracles == [style : {"mark", "lines"}, poison : {NoPoison, "b"}]
OracleRaises(o, t) == \E i \in 1..Len(t) : t[i] = o.poison
OracleValue(o, t) ==
    IF o.style = "mark" THEN <<"T">> \o t ELSE <<"T", NL>> \o t

\* posixpath.dirname
RECURSIVE RStripSlash(_)
RStripSlash(path) ==
    IF path # <<>> /\ path[Len(path)] = "/"
    THEN RStripSlash(SubSeq(path, 1, Len(path) - 1))
    ELSE path

LastSlash(path) ==
    LET at == {i \in 1..Len(path) : path[i] = "/"}
    IN IF at = {} THEN 0 ELSE CHOOSE i \in at : \A j \in at : j <= i

dirname(path) ==
    LET head == SubSeq(path, 1, LastSlash(path))
    IN IF RStripSlash(head) = <<>> THEN head ELSE RStripSlash(head)

\* posixpath.join(base, src)
PathJoin(base, src) ==
    IF src # <<>> /\ src[1] = "/" THEN src
    ELSE IF base = <<>> \/ base[Len(base)] = "/" THEN base \o src
    ELSE base \o <<"/">> \o src

\* posixpath.normpath
RECURSIVE NormComps(_, _, _)
NormComps(comps, initial, new_comps) ==
    IF comps = <<>> THEN new_comps
    ELSE LET comp == Head(comps)
         IN IF comp = "."
            THEN NormComps(Tail(comps), initial, new_comps)
            ELSE IF \/ comp # ".."
                    \/ (~initial /\ new_comps = <<>>)
                    \/ (new_comps # <<>> /\ new_comps[Len(new_comps)] = "..")
            THEN NormComps(Tail(comps), initial, Append(new_comps, comp))
            ELSE IF new_comps # <<>>
            THEN NormComps(Tail(comps), initial,
                           SubSeq(new_comps, 1, Len(new_comps) - 1))
            ELSE NormComps(Tail(comps), initial, new_comps)

normpath(path) ==
    IF path = <<>> THEN <<".">>
    ELSE LET initial == path[1] = "/"
             comps == NormComps(SelectSeq(path, LAMBDA c : c # "/"),
                                initial, <<>>)
             joined == (IF initial THEN <<"/">> ELSE <<>>)
                          \o Join([i \in 1..Len(comps) |-> <<comps[i]>>], <<"/">>)
         IN IF joined = <<>> THEN <<".">> ELSE joined

\* str.lstrip("./") on path tokens: the leading ".", ".." and "/" go.
RECURSIVE LStripDotSlash(_)
LStripDotSlash(path) ==
    IF path # <<>> /\ path[1] \in {".", "..", "/"}
    THEN LStripDotSlash(Tail(path))
    ELSE path

normalize_epub_path(path) == LStripDotSlash(normpath(path))

\* resolve_image_src; None is <<>>, which `if not src` treats like "".
resolve_image_src(src, doc_path) ==
    IF src = <<>> \/ src[1] = "data:" THEN <<>>
    ELSE normalize_epub_path(PathJoin(dirname(doc_path), src))

\* add_translated_text on the runs of the paragraph
add_translated_text(st, t, o) ==
    IF t = <<>> THEN st
    ELSE IF Strip(t) = <<>> THEN [st EXCEPT !.runs = Append(@, t)]
    ELSE IF OracleRaises(o, t) THEN [st EXCEPT !.raised = TRUE]
    ELSE [st EXCEPT !.runs = @ \o Runs(OracleValue(o, t))]

\* An iteration that takes an image it cannot insert for an error.
RenderSegRaiseOnMissing(st, seg, o, image_map, doc_path) ==
    IF seg.type = "text" THEN add_translated_text(st, seg.value, o)
    ELSE LET src == resolve_image_src(seg.src, doc_path)
         IN IF src = <<>> \/ src \notin DOMAIN image_map
            THEN [st EXCEPT !.raised = TRUE]
            ELSE [st EXCEPT !.runs = Append(@, <<PIC, image_map[src]>>)]

\* One iteration of `for seg in segments` of process_block.
RenderSeg(st, seg, o, image_map, doc_path) ==
    IF seg.type = "text" THEN add_translated_text(st, seg.value, o)
    ELSE LET src == resolve_image_src(seg.src, doc_path)
         IN IF src = <<>> THEN st
            ELSE IF src \notin DOMAIN image_map THEN st
            ELSE [st EXCEPT !.runs = Append(@, <<PIC, image_map[src]>>)]

RECURSIVE RenderSegs(_, _, _, _, _)
RenderSegs(st, segments, o, image_map, doc_path) ==
    IF segments = <<>> \/ st.raised THEN st
    ELSE RenderSegs(RenderSeg(st, Head(segments), o, image_map, doc_path),
                    Tail(segments), o, image_map, doc_path)

\* paragraph.style
StyleOf(name) ==
    IF name \in {"h1", "h2", "h3", "h4", "h5", "h6"} THEN <<"Heading", name>>
    ELSE IF name = "li" THEN <<"List Bullet">>
    ELSE <<"Normal">>

\* tag.find_all(names): the descendants with one of the names, in order.
RECURSIVE FindAll(_, _)
RECURSIVE FindAllIn(_, _)
FindAll(node, names) ==
    IF node.kind # "tag" THEN <<>> ELSE FindAllIn(node.children, names)

FindAllIn(kids, names) ==
    IF kids = <<>> THEN <<>>
    ELSE LET kid == Head(kids)
             self == IF kid.kind = "tag" /\ kid.name \in names
                     THEN <<kid>> ELSE <<>>
         IN self \o FindAll(kid, names) \o FindAllIn(Tail(kids), names)

\* The stripped, non-empty strings under a node, in order.
RECURSIVE StrippedStrings(_)
StrippedStrings(kids) ==
    IF kids = <<>> THEN <<>>
    ELSE LET kid == Head(kids)
             here == IF kid.kind = "str"
                     THEN (IF Strip(kid.value) = <<>> THEN <<>>
                           ELSE <<Strip(kid.value)>>)
                     ELSE IF kid.kind = "tag" THEN StrippedStrings(kid.children)
                     ELSE <<>>
         IN here \o StrippedStrings(Tail(kids))

\* cell.get_text(" ", strip=True)
get_text(cell) == Join(StrippedStrings(cell.children), <<" ">>)

\* if cell_text:
KeepCell(cell_text) == cell_text # <<>>

\* The loop over the cells of one row: the translations, or the raise.
RECURSIVE RowCells(_, _, _)
RowCells(cs, rowcells, o) ==
    IF rowcells = <<>> \/ cs.raised THEN cs
    ELSE LET cell_text == get_text(Head(rowcells))
         IN IF ~KeepCell(cell_text) THEN RowCells(cs, Tail(rowcells), o)
            ELSE IF OracleRaises(o, cell_text)
            THEN [cs EXCEPT !.raised = TRUE]
            ELSE RowCells([cs EXCEPT !.cells = Append(@, OracleValue(o, cell_text))],
                          Tail(rowcells), o)

\* The loop over the rows: one paragraph per row that has cells.
RECURSIVE TableRows(_, _, _)
TableRows(st, rows, o) ==
    IF rows = <<>> \/ st.raised THEN st
    ELSE LET cs == RowCells([cells |-> <<>>, raised |-> FALSE],
                            FindAll(Head(rows), {"td", "th"}), o)
         IN IF cs.raised THEN [st EXCEPT !.raised = TRUE]
            ELSE IF cs.cells = <<>> THEN TableRows(st, Tail(rows), o)
            ELSE TableRows(
                    [st EXCEPT !.paras = Append(@,
                        [style |-> <<"Normal">>,
                         runs |-> <<Join(cs.cells, <<TAB>>)>>])],
                    Tail(rows), o)

process_table(tag, o) ==
    TableRows([paras |-> <<>>, raised |-> FALSE], FindAll(tag, {"tr"}), o)

\* process_block: the paragraphs it adds to doc and whether it raised.
process_block(tag, o, image_map, doc_path) ==
    IF tag.name = "table" THEN process_table(tag, o)
    ELSE LET st == RenderSegs([runs |-> <<>>, raised |-> FALSE],
                              extract_inline_segments(tag), o, image_map,
                              doc_path)
         IN [paras |-> <<[style |-> StyleOf(tag.name), runs |-> st.runs]>>,
             raised |-> st.raised]

BlockLeaves ==
    {Str(<<"a">>), Str(<<"b">>), Str(<<" ">>), Br,
     Img(SrcUp), Img(SrcDown), Img(SrcData), Img(SrcEmpty)}

InlineBlocks ==
    {Elem(name, kids) : name \in {"p", "h2", "li"},
                        kids \in SeqsUpTo(BlockLeaves, MaxBlockKids)}

\* The cells of the tables: a blank one, one string, several strings to trim.
TableCells ==
    {Elem("td", <<Str(<<" ", " ">>)>>),
     Elem("th", <<Str(<<"a">>)>>),
     Elem("td", <<Str(<<" ", "b">>), Str(<<" ">>), Str(<<"a", " ">>)>>)}

TableBlocks ==
    {Elem("table", rows) :
        rows \in SeqsUpTo({Elem("tr", cells) :
                              cells \in SeqsUpTo(TableCells, MaxCells)},
                          MaxRows)}

InitBlock ==
    /\ \/ \E tag \in InlineBlocks, dp \in DocPaths :
             block = [tag |-> tag, doc_path |-> dp]
       \/ \E tag \in TableBlocks :
             block = [tag |-> tag, doc_path |-> <<"ch1.xhtml">>]
    /\ oracle \in Oracles
    /\ emitted = <<>>
    /\ PureIdle
    /\ ClientInit
    /\ RunIdle
    /\ max_chars = 1
    /\ retry = 0

CallProcessBlock ==
    /\ ~called
    /\ emitted' = process_block(block.tag, oracle, ImageMap, block.doc_path)
    /\ called' = TRUE
    /\ UNCHANGED <<text, max_chars, chunks, raw, cleaned, clientVars, histVars,
                   runVars, block, oracle>>

SpecBlock == InitBlock /\ [][CallProcessBlock]_vars

\* ---- claims about process_block (specification SpecBlock) ----
\* What one segment of the block contributes to the paragraph.
C14_RunsOf(seg) ==
    IF seg.type = "text"
    THEN (IF seg.value = <<>> THEN <<>>
          ELSE IF Blank(seg.value) THEN <<seg.value>>
          ELSE Runs(OracleValue(oracle, seg.value)))
    ELSE IF \/ seg.src = <<>>
            \/ seg.src[1] = "data:"
            \/ resolve_image_src(seg.src, block.doc_path) \notin DOMAIN ImageMap
    THEN <<>>
    ELSE <<<<PIC, ImageMap[resolve_image_src(seg.src, block.doc_path)]>>>>

RECURSIVE C14_RunsUpTo(_, _)
C14_RunsUpTo(segments, n) ==
    IF n = 0 THEN <<>>
    ELSE C14_RunsUpTo(segments, n - 1) \o C14_RunsOf(segments[n])

\* The segments whose translation raises.
C14_Raising(segments) ==
    {i \in 1..Len(segments) :
        /\ segments[i].type = "text"
        /\ ~Blank(segments[i].value)
        /\ OracleRaises(oracle, segments[i].value)}

\* C14: a block that is not a table becomes one paragraph whose runs are, in
\* segment order and with nothing else, the runs of each text segment's
\* translation (a blank text as it is) and one picture for each image that
\* resolves to an entry of the image map; an image whose src is empty, a data
\* URI or not in the image map adds nothing and raises nothing, and the
\* segments after it are rendered all the same. Only a translation that
\* raises ends the block, after the runs of the segments before it.
C14_SourceOrder ==
    (called /\ block.tag.name # "table") =>
        LET segments == extract_inline_segments(block.tag)
            raising == C14_Raising(segments)
            upto == IF raising = {} THEN Len(segments)
                    ELSE (CHOOSE i \in raising : \A j \in raising : i <= j) - 1
        IN /\ Len(emitted.paras) = 1
           /\ emitted.raised = (raising # {})
           /\ emitted.paras[1].runs = C14_RunsUpTo(segments, upto)

\* C14 witness: in text/ch1.xhtml the block "a", <img src="images/a.png">
\* (not in the image map), <img src="../images/a.png"> gave the translation
\* of "a" and then the picture, nothing for the first image and no error.
C14_Witness ==
    /\ called
    /\ block.doc_path = <<"text", "/", "ch1.xhtml">>
    /\ block.tag.name = "p"
    /\ block.tag.children = <<Str(<<"a">>), Img(SrcDown), Img(SrcUp)>>
    /\ oracle.style = "mark"
    /\ ~emitted.raised
    /\ emitted.paras[1].runs = <<<<"T", "a">>, <<PIC, "tmp/images__a.png">>>>

\* ---- claims about process_table (specification SpecBlock) ----
\* The translation of a cell text; translate_text returns a blank text as
\* it is.
C15_Translated(cell_text) ==
    IF Blank(cell_text) THEN cell_text ELSE OracleValue(oracle, cell_text)

\* The line of a row: the translations of all its cell texts, tab-joined.
C15_LineOf(row) ==
    Join([i \in 1..Len(row.children) |->
             C15_Translated(get_text(row.children[i]))], <<TAB>>)

C15_HasText(row) ==
    \E i \in 1..Len(row.children) : get_text(row.children[i]) # <<>>

RECURSIVE C15_LinesOf(_)
C15_LinesOf(rows) ==
    IF rows = <<>> THEN <<>>
    ELSE (IF C15_HasText(Head(rows))
          THEN <<[style |-> <<"Normal">>, runs |-> <<C15_LineOf(Head(rows))>>]>>
          ELSE <<>>) \o C15_LinesOf(Tail(rows))

\* C15: for a table whose translations all return, the output is one line per
\* row that has a non-empty cell, in row order, each line being the
\* translations of the row's cell texts, in cell order, joined by tabs; a row
\* with no non-empty cell gives no line.
C15_Original ==
    (called /\ block.tag.name = "table" /\ ~emitted.raised) =>
        emitted.paras = C15_LinesOf(block.tag.children)

====
